---- MODULE Spec2Model ----
(***************************************************************************)
(* Model of scripts/fetch_and_plot.py: for each provider of BUCKET_CONFIG  *)
(* the script looks for the latest GRIB2 object (find_latest_data),        *)
(* downloads it, opens it and writes a temperature and a wind image        *)
(* (process_model); the main block counts the providers that returned True *)
(* and sets the exit status.                                               *)
(*                                                                         *)
(* Python strings are TLA+ strings (Len, \o and SubSeq work on them), so   *)
(* endswith / in / f-strings / strftime are computed on the characters.    *)
(* The S3 client, cfgrib and matplotlib are the environment: a listing, a  *)
(* download, an open and a plot each either answer or raise.               *)
(***************************************************************************)
EXTENDS Integers, Sequences, FiniteSets, TLC

VARIABLES
    pc,             \* position of the script
    idx,            \* position of the main loop in BUCKET_CONFIG.keys()
    i,              \* day counter of find_latest_data (range(5))
    j,              \* position in prefixes_to_check
    date,           \* find_latest_data's date
    probes,         \* prefixes passed to s3.list_objects_v2 by the current call
    resp,           \* the last answer of s3.list_objects_v2
    prev_contents,  \* some earlier probe of the current call answered with Contents
    key,            \* key found by find_latest_data
    date_str,       \* date_str found by find_latest_data
    first_hit,      \* the downloaded key was found under the first prefix probed
    err,            \* which failure path process_model took
    data_vars,      \* list(ds.data_vars)
    t_var,
    u_var,
    v_var,
    warned,         \* warnings printed by process_model
    ret,            \* return value of process_model
    downloads,      \* providers for which s3.download_file was called
    assets,         \* image files written under assets/
    results,        \* return values of process_model, in call order
    success_count,
    exit_code,
    message         \* the final message printed by the main block

vars == <<pc, idx, i, j, date, probes, resp, prev_contents, key, date_str,
          first_hit, err, data_vars, t_var, u_var, v_var, warned, ret, downloads, assets,
          results, success_count, exit_code, message>>

None == "None"

(***************************************************************************)
(* Bounds of the environment                                               *)
(***************************************************************************)
\* at most this many objects in one listing
MaxListing == 2
\* at most this many variables in one dataset
MaxVars == 3

(***************************************************************************)
(* Python string operations                                                *)
(***************************************************************************)
\* s.endswith(suf)
EndsWith(s, suf) ==
    /\ Len(s) >= Len(suf)
    /\ SubSeq(s, Len(s) - Len(suf) + 1, Len(s)) = suf

\* sub in s
Contains(s, sub) ==
    \E k \in 1..(Len(s) - Len(sub) + 1) : SubSeq(s, k, k + Len(sub) - 1) = sub

\* zero-padded two digits, as %m and %d print them
Pad2(n) == IF n < 10 THEN "0" \o ToString(n) ELSE ToString(n)

(***************************************************************************)
(* datetime                                                                *)
(***************************************************************************)
IsLeap(y) == (y % 4 = 0 /\ y % 100 # 0) \/ y % 400 = 0

DaysInMonth(y, m) ==
    IF m = 2 THEN (IF IsLeap(y) THEN 29 ELSE 28)
    ELSE IF m \in {4, 6, 9, 11} THEN 30 ELSE 31

\* date - timedelta(days=1)
PrevDay(d) ==
    IF d.day > 1 THEN [d EXCEPT !.day = d.day - 1]
    ELSE IF d.month > 1
         THEN [year |-> d.year, month |-> d.month - 1,
               day |-> DaysInMonth(d.year, d.month - 1)]
         ELSE [year |-> d.year - 1, month |-> 12, day |-> 31]

\* date.strftime('%Y%m%d')
DateStr(d) == ToString(d.year) \o Pad2(d.month) \o Pad2(d.day)

\* no date: find_latest_data is not running
NoDate == [year |-> 0, month |-> 0, day |-> 0]

\* the values datetime.utcnow() takes at line 40
\* (the window of the first crosses 29 February, that of the second 1 January)
Todays ==
    { [year |-> 2024, month |-> 3, day |-> 2],
      [year |-> 2026, month |-> 1, day |-> 3] }

(***************************************************************************)
(* Configuration                                                           *)
(***************************************************************************)
Models == << "EURO-AIFS", "EAGLE-GraphCast", "FourCastNet" >>

BUCKET_CONFIG(model) ==
    CASE model = "EURO-AIFS" ->
           [bucket |-> "ecmwf-forecasts", source |-> "ecmwf", prefix_base |-> None]
      [] model = "EAGLE-GraphCast" ->
           [bucket |-> "noaa-nws-graphcastgfs-pds", source |-> "noaa",
            prefix_base |-> "graphcastgfs"]
      [] model = "FourCastNet" ->
           [bucket |-> "noaa-nws-fourcastnetgfs-pds", source |-> "noaa",
            prefix_base |-> "fcngfs"]

\* range(5)
NumDays_more == 5 + 1
NumDays == 5

NOAA_HOURS_sorted == << "00", "06", "12", "18" >>
NOAA_HOURS == << "00", "12", "06", "18" >>

ECMWF_HOURS == << "00", "12" >>

\* prefixes_to_check of one day
PrefixesToCheck(config, ds) ==
    IF config.source = "noaa"
    THEN [n \in 1..(2 * Len(NOAA_HOURS)) |->
            IF n % 2 = 1
            THEN config.prefix_base \o "." \o ds \o "/" \o NOAA_HOURS[(n + 1) \div 2]
                 \o "/forecasts/"
            ELSE config.prefix_base \o "." \o ds \o "/" \o NOAA_HOURS[n \div 2] \o "/"]
    ELSE [n \in 1..Len(ECMWF_HOURS) |->
            ds \o "/" \o ECMWF_HOURS[n] \o "z/aifs/0p25/oper/"]

(***************************************************************************)
(* The file filter of find_latest_data                                     *)
(***************************************************************************)
Matches_noext(source, k) ==
    IF source = "noaa"
    THEN Contains(k, "f012") \/ Contains(k, "f006")
    ELSE source = "ecmwf"

Matches(source, k) ==
    IF source = "noaa"
    THEN EndsWith(k, ".grib2") /\ (Contains(k, "f012") \/ Contains(k, "f006"))
    ELSE source = "ecmwf" /\ EndsWith(k, ".grib2")

\* the loop over resp['Contents']: the first key the filter accepts
SelectKey_last(source, contents) ==
    LET ok == { n \in 1..Len(contents) : Matches(source, contents[n]) }
    IN IF ok = {} THEN None
       ELSE contents[CHOOSE n \in ok : \A m \in ok : m <= n]

SelectKey(source, contents) ==
    LET ok == { n \in 1..Len(contents) : Matches(source, contents[n]) }
    IN IF ok = {} THEN None
       ELSE contents[CHOOSE n \in ok : \A m \in ok : n <= m]

\* "if not key" at line 100
KeyMissing_never(k) == FALSE
KeyMissing(k) == k = None \/ k = ""

(***************************************************************************)
(* The environment: answers of s3.list_objects_v2                          *)
(***************************************************************************)
\* object names under a prefix, in the order S3 lists them
ObjectNames ==
    << "fc.t00z.f000.grib2",
       "fc.t00z.f006.grib2",
       "fc.t00z.f006.grib2.idx",
       "fc.t00z.f012.grib2" >>

\* the listings of at most MaxListing objects, each in S3's order
RECURSIVE Listings(_, _)
Listings(from, room) ==
    IF room = 0 \/ from > Len(ObjectNames) THEN { << >> }
    ELSE { << >> } \cup
         UNION { { << n >> \o rest : rest \in Listings(n + 1, room - 1) } :
                 n \in from..Len(ObjectNames) }

\* the listings that hold an object
NonEmptyListings == Listings(1, MaxListing) \ { << >> }

Raised == [kind |-> "raise", Contents |-> << >>]
NoContents == [kind |-> "ok", Contents |-> << >>]
NoResp == [kind |-> "none", Contents |-> << >>]

\* the answers to a listing of prefix: an exception, an answer without
\* 'Contents', or the keys of some objects under the prefix
Responses(prefix) ==
    { Raised, NoContents } \cup
    { [kind |-> "ok", Contents |-> [n \in 1..Len(l) |-> prefix \o ObjectNames[l[n]]]] :
        l \in NonEmptyListings }

\* 'Contents' in resp (S3 leaves the field out when it lists no object)
HasContents(r) == r.kind = "ok" /\ Len(r.Contents) > 0

(***************************************************************************)
(* The environment: the variables of an opened dataset                     *)
(***************************************************************************)
VarNames == { "t2m", "2t", "u10", "v10", "sp" }

\* list(ds.data_vars): at most MaxVars distinct names, in the dataset's order
DataVarLists ==
    UNION { { s \in [1..n -> VarNames] : \A a, b \in 1..n : a # b => s[a] # s[b] } :
            n \in 0..MaxVars }

(***************************************************************************)
(* Variable names and images of process_model                              *)
(***************************************************************************)
T_ALIASES == { "t2m", "tmp", "2t" }
U_ALIASES == { "u10", "ugrd", "10u" }
V_ALIASES == { "v10", "vgrd", "10v" }

\* next((v for v in data_vars if v in aliases), None)
Resolve_default_first(aliases, dv) ==
    IF \E n \in 1..Len(dv) : dv[n] \in aliases
    THEN dv[CHOOSE n \in 1..Len(dv) :
              dv[n] \in aliases /\ \A m \in 1..(n - 1) : dv[m] \notin aliases]
    ELSE IF Len(dv) > 0 THEN dv[1] ELSE None

Resolve(aliases, dv) ==
    IF \E n \in 1..Len(dv) : dv[n] \in aliases
    THEN dv[CHOOSE n \in 1..Len(dv) :
              dv[n] \in aliases /\ \A m \in 1..(n - 1) : dv[m] \notin aliases]
    ELSE None

\* truth value of a str-or-None
Truthy(x) == x # None /\ x # ""

\* "if t_var"
TempCondition(t) == Truthy(t)

\* "if u_var and v_var"
WindCondition(u, v) == Truthy(u) /\ Truthy(v)

\* the file names given to plt.savefig
ImageFile_temp_only(model, field) == "assets/" \o model \o "_temp.png"
ImageFile(model, field) == "assets/" \o model \o "_" \o field \o ".png"

\* success_count after one iteration of the main loop
CountAfter(count, returned) == IF returned THEN count + 1 ELSE count

\* the exit status decided at lines 169-173
ExitStatus_always_zero(count) == 0
ExitStatus(count) == IF count = 0 THEN 1 ELSE 0

(***************************************************************************)
(* Initial state: line 164, before the main loop                           *)
(***************************************************************************)
Init ==
    /\ pc = "main"
    /\ idx = 1
    /\ i = 0
    /\ j = 1
    /\ date = NoDate
    /\ probes = << >>
    /\ resp = NoResp
    /\ prev_contents = FALSE
    /\ key = None
    /\ date_str = None
    /\ first_hit = FALSE
    /\ err = "none"
    /\ data_vars = << >>
    /\ t_var = None
    /\ u_var = None
    /\ v_var = None
    /\ warned = {}
    /\ ret = FALSE
    /\ downloads = {}
    /\ assets = {}
    /\ results = << >>
    /\ success_count = 0
    /\ exit_code = None
    /\ message = None

Model == Models[idx]
Config == BUCKET_CONFIG(Model)
Source == Config.source

\* the local variables of process_model and find_latest_data before a call
LocalsReset ==
    /\ i' = 0
    /\ j' = 1
    /\ date' = NoDate
    /\ probes' = << >>
    /\ resp' = NoResp
    /\ prev_contents' = FALSE
    /\ key' = None
    /\ date_str' = None
    /\ first_hit' = FALSE
    /\ err' = "none"
    /\ data_vars' = << >>
    /\ t_var' = None
    /\ u_var' = None
    /\ v_var' = None
    /\ warned' = {}
    /\ ret' = FALSE

(***************************************************************************)
(* Actions                                                                 *)
(***************************************************************************)
\* lines 165-166, 92-99, 37-40: the main loop calls process_model, which calls
\* find_latest_data
CallProcessModel ==
    /\ pc = "main"
    /\ idx <= Len(Models)
    /\ pc' = "find"
    /\ date' \in Todays
    /\ i' = 0
    /\ j' = 1
    /\ UNCHANGED <<idx, probes, resp, prev_contents, key, date_str, first_hit, err,
                   data_vars, t_var, u_var, v_var, warned, ret, downloads, assets,
                   results, success_count, exit_code, message>>

\* lines 43-88: one prefix is listed and its keys are filtered
Probe ==
    /\ pc = "find"
    /\ i < NumDays
    /\ LET prefixes == PrefixesToCheck(Config, DateStr(date))
           prefix == prefixes[j]
       IN \E r \in Responses(prefix) :
            IF r.kind = "raise"
            THEN \* nothing catches the exception of line 65: the frames of
                 \* find_latest_data and process_model are unwound and the
                 \* interpreter prints a traceback and exits with status 1
                 /\ pc' = "crashed"
                 /\ exit_code' = 1
                 /\ message' = "traceback"
                 /\ LocalsReset
            ELSE /\ probes' = Append(probes, prefix)
                 /\ resp' = r
                 /\ prev_contents' = (prev_contents \/ HasContents(resp))
                 /\ LET found == IF HasContents(r)
                                 THEN SelectKey(Config.source, r.Contents)
                                 ELSE None
                    IN IF found # None
                       THEN \* lines 78/85, 99-100
                            /\ key' = found
                            /\ date_str' = DateStr(date)
                            /\ IF KeyMissing(found)
                               THEN pc' = "ret" /\ ret' = FALSE /\ err' = "notfound"
                               ELSE pc' = "download" /\ UNCHANGED <<ret, err>>
                            /\ UNCHANGED <<i, j, date>>
                       ELSE /\ IF j < Len(prefixes)
                               THEN j' = j + 1 /\ UNCHANGED <<i, date>>
                               ELSE j' = 1 /\ i' = i + 1 /\ date' = PrevDay(date)
                            /\ UNCHANGED <<pc, key, date_str, err, ret>>
                 /\ UNCHANGED <<first_hit, data_vars, t_var, u_var, v_var, warned,
                                exit_code, message>>
    /\ UNCHANGED <<idx, downloads, assets, results, success_count>>

\* lines 90, 99-102: the window is exhausted
NotFound ==
    /\ pc = "find"
    /\ i >= NumDays
    /\ key' = None
    /\ date_str' = None
    /\ IF KeyMissing(None)
       THEN pc' = "ret" /\ ret' = FALSE /\ err' = "notfound"
       ELSE pc' = "download" /\ UNCHANGED <<ret, err>>
    /\ UNCHANGED <<idx, i, j, date, probes, resp, prev_contents, first_hit,
                   data_vars, t_var, u_var, v_var, warned, downloads, assets,
                   results, success_count, exit_code, message>>

\* lines 104-111: s3.download_file is called with key and answers or raises.
\* find_latest_data's frame is gone and key is not read again: both are cleared
Download ==
    /\ pc = "download"
    /\ downloads' = downloads \cup { Model }
    /\ first_hit' = (Len(probes) = 1)
    /\ \E ok \in BOOLEAN :
         IF ok
         THEN pc' = "process" /\ UNCHANGED <<ret, err>>
         ELSE pc' = "ret" /\ ret' = FALSE /\ err' = "download"
    /\ i' = 0
    /\ j' = 1
    /\ date' = NoDate
    /\ probes' = << >>
    /\ resp' = NoResp
    /\ prev_contents' = FALSE
    /\ key' = None
    /\ date_str' = None
    /\ UNCHANGED <<idx, data_vars, t_var, u_var, v_var, warned, assets,
                   results, success_count, exit_code, message>>

\* lines 113-158: the dataset is opened, the variables are resolved and the two
\* images are written; any exception is caught at line 156
Process ==
    /\ pc = "process"
    /\ pc' = "ret"
    /\ \E opened \in BOOLEAN :
         IF ~opened
         THEN /\ ret' = FALSE
              /\ err' = "grib"
              /\ UNCHANGED <<data_vars, t_var, u_var, v_var, warned, assets>>
         ELSE \E dv \in DataVarLists, tFail \in BOOLEAN, wFail \in BOOLEAN :
                LET t == Resolve(T_ALIASES, dv)
                    u == Resolve(U_ALIASES, dv)
                    v == Resolve(V_ALIASES, dv)
                    tempTried == TempCondition(t)
                    tempRaised == tempTried /\ tFail
                    windReached == ~tempRaised
                    windTried == windReached /\ WindCondition(u, v)
                    windRaised == windTried /\ wFail
                IN /\ data_vars' = dv
                   /\ t_var' = t
                   /\ u_var' = u
                   /\ v_var' = v
                   /\ assets' = assets
                        \cup (IF tempTried /\ ~tempRaised
                              THEN { ImageFile(Model, "temp") } ELSE {})
                        \cup (IF windTried /\ ~windRaised
                              THEN { ImageFile(Model, "wind") } ELSE {})
                   /\ warned' = (IF ~tempTried THEN { "temp" } ELSE {})
                        \cup (IF windReached /\ ~windTried THEN { "wind" } ELSE {})
                   /\ ret' = ~(tempRaised \/ windRaised)
                   /\ err' = IF tempRaised \/ windRaised THEN "grib" ELSE "none"
    /\ UNCHANGED <<idx, i, j, date, probes, resp, prev_contents, key,
                   date_str, first_hit, downloads, results, success_count,
                   exit_code, message>>

\* lines 165-167: process_model has returned; the loop counts and moves on
MainNext ==
    /\ pc = "ret"
    /\ pc' = "main"
    /\ results' = Append(results, ret)
    /\ success_count' = CountAfter(success_count, ret)
    /\ idx' = idx + 1
    /\ LocalsReset
    /\ UNCHANGED <<downloads, assets, exit_code, message>>

\* lines 169-173: the loop is over
Finish ==
    /\ pc = "main"
    /\ idx > Len(Models)
    /\ pc' = "done"
    /\ exit_code' = ExitStatus(success_count)
    /\ message' = IF success_count = 0 THEN "critical" ELSE "success"
    /\ UNCHANGED <<idx, i, j, date, probes, resp, prev_contents, key,
                   date_str, first_hit, err, data_vars, t_var, u_var, v_var, warned, ret,
                   downloads, assets, results, success_count>>

Next ==
    \/ CallProcessModel
    \/ Probe
    \/ NotFound
    \/ Download
    \/ Process
    \/ MainNext
    \/ Finish

Spec == Init /\ [][Next]_vars

(***************************************************************************)
(* Vocabulary of the properties                                            *)
(***************************************************************************)
\* pre is the beginning of s
StartsWith(s, pre) ==
    /\ Len(s) >= Len(pre)
    /\ SubSeq(s, 1, Len(pre)) = pre

Running == pc \in { "find", "download", "process", "ret" }

\* the run has ended, normally or by an uncaught exception
Ended == pc \in { "done", "crashed" }

\* the value of a decimal digit and of a string of decimal digits
DigitVal(c) ==
    CASE c = "0" -> 0 [] c = "1" -> 1 [] c = "2" -> 2 [] c = "3" -> 3 [] c = "4" -> 4
      [] c = "5" -> 5 [] c = "6" -> 6 [] c = "7" -> 7 [] c = "8" -> 8 [] c = "9" -> 9

RECURSIVE NumVal(_)
NumVal(s) ==
    IF Len(s) = 0 THEN 0
    ELSE 10 * NumVal(SubSeq(s, 1, Len(s) - 1)) + DigitVal(SubSeq(s, Len(s), Len(s)))

\* where the date starts in a prefix of the current provider
DateAt == IF Source = "noaa" THEN Len(Config.prefix_base) + 2 ELSE 1

\* the YYYYMMDD and the forecast cycle written in a prefix
DayOf(prefix) == SubSeq(prefix, DateAt, DateAt + 7)
DateOf(prefix) == NumVal(DayOf(prefix))
HourOf(prefix) == SubSeq(prefix, DateAt + 9, DateAt + 10)

\* the days probed so far, and the cycles probed of one day
DaysProbed == { DayOf(probes[n]) : n \in 1..Len(probes) }
CyclesProbed(day) ==
    { HourOf(probes[n]) : n \in { m \in 1..Len(probes) : DayOf(probes[m]) = day } }

\* the image files of a provider under assets/
FilesOf(model) == { f \in assets : StartsWith(f, "assets/" \o model \o "_") }
TempFile(model) == "assets/" \o model \o "_temp.png"
WindFile(model) == "assets/" \o model \o "_wind.png"

HasMarker(k) == Contains(k, "f012") \/ Contains(k, "f006")
HasExtension(k) == EndsWith(k, ".grib2")

\* find_latest_data has listed every prefix of its window and none held an object
WindowEmpty ==
    /\ pc \in { "find", "download", "ret" }
    /\ i >= NumDays
    /\ ~prev_contents
    /\ ~HasContents(resp)

\* the state holds the answer to the listing of the last prefix probed
Listed == pc \in { "find", "download" } /\ HasContents(resp)

(***************************************************************************)
(* C1: whichever way a provider fails, the main loop still calls           *)
(* process_model for every other provider and the failing provider only    *)
(* returns False: a run never ends before every provider has returned.     *)
(***************************************************************************)
C1_FailureDoesNotBlockOthers ==
    Ended => /\ Len(results) = Len(Models)
             /\ pc = "done"

(***************************************************************************)
(* C2: the run reports success only when some image file was written under *)
(* assets/; every provider that returned True has saved a temperature or a *)
(* wind image.                                                             *)
(***************************************************************************)
C2_SuccessOnlyWithOutput ==
    /\ (pc = "done" /\ message = "success") => assets # {}
    /\ (pc = "ret" /\ ret) => FilesOf(Model) # {}

(***************************************************************************)
(* C3: once every provider has been processed, the exit status is non-zero *)
(* exactly when process_model returned True for none of them.              *)
(***************************************************************************)
C3_ExitStatusIffNoSuccess ==
    pc = "done" =>
        /\ Len(results) = Len(Models)
        /\ (exit_code # 0) <=> (\A n \in 1..Len(results) : ~results[n])
        /\ (\E n \in 1..Len(results) : results[n]) => exit_code = 0

C3_Witness ==
    /\ pc = "done"
    /\ exit_code = 0
    /\ \E n \in 1..Len(results) : ~results[n]

(***************************************************************************)
(* C4: when no prefix of the lookback window holds an object,              *)
(* find_latest_data returns (None, None), process_model returns False on   *)
(* the not-found path and s3.download_file is not called for the provider. *)
(***************************************************************************)
C4_NotFoundNoDownload ==
    WindowEmpty =>
        /\ key = None
        /\ pc # "download"
        /\ Model \notin downloads
        /\ pc = "ret" => (~ret /\ err = "notfound" /\ date_str = None)

C4_Witness ==
    /\ WindowEmpty
    /\ pc = "ret"
    /\ ~ret
    /\ Source = "noaa"
    /\ Len(probes) = 40

(***************************************************************************)
(* C5: every key find_latest_data returns, and so every key handed to      *)
(* s3.download_file, ends with ".grib2".                                   *)
(***************************************************************************)
C5_KeyHasExtension ==
    /\ key # None => EndsWith(key, ".grib2")
    /\ pc = "download" => key # None

C5_Witness ==
    /\ pc = "download"
    /\ Source = "ecmwf"
    /\ Len(resp.Contents) = 2
    /\ ~EndsWith(resp.Contents[1], ".grib2")
    /\ key = resp.Contents[2]

(***************************************************************************)
(* C6: a role of which no alias is among the dataset's variables resolves  *)
(* to None without an exception; the image of an unresolved role is        *)
(* skipped with a warning and the other image is still written.            *)
(***************************************************************************)
C6_UnresolvedRoleSkipsImage ==
    (pc = "ret" /\ err \in { "none", "grib" }) =>
        /\ (\A n \in 1..Len(data_vars) : data_vars[n] \notin T_ALIASES) => t_var = None
        /\ (\A n \in 1..Len(data_vars) : data_vars[n] \notin U_ALIASES) => u_var = None
        /\ (\A n \in 1..Len(data_vars) : data_vars[n] \notin V_ALIASES) => v_var = None
        /\ t_var = None => TempFile(Model) \notin assets
        /\ (u_var = None \/ v_var = None) => WindFile(Model) \notin assets
        /\ (err = "none" /\ t_var = None) => "temp" \in warned
        /\ (err = "none" /\ (u_var = None \/ v_var = None)) => "wind" \in warned
        /\ (err = "none" /\ t_var # None) => TempFile(Model) \in assets
        /\ (err = "none" /\ u_var # None /\ v_var # None) => WindFile(Model) \in assets
        /\ ("temp" \in warned /\ (u_var = None \/ v_var = None)) =>
               (ret /\ err = "none" /\ warned = { "temp", "wind" })

C6_Witness ==
    /\ pc = "ret"
    /\ err = "none"
    /\ t_var = None
    /\ "temp" \in warned
    /\ u_var # None
    /\ v_var # None
    /\ FilesOf(Model) = { WindFile(Model) }

(***************************************************************************)
(* C7, as stated: a recognizable file under the first prefix probed, no    *)
(* failure of the download or of the processing: exactly two image files   *)
(* for the provider, and success.                                          *)
(***************************************************************************)
C7_Original ==
    (pc = "ret" /\ first_hit /\ err = "none") =>
        /\ FilesOf(Model) = { TempFile(Model), WindFile(Model) }
        /\ Cardinality(FilesOf(Model)) = 2
        /\ ret

(***************************************************************************)
(* C7, amended: the same, when moreover the dataset holds an alias of each *)
(* of the three roles: process_model writes exactly two image files for    *)
(* the provider and returns True, and a run that reaches its final report  *)
(* with such a provider reports success with status 0.                     *)
(***************************************************************************)
C7_TwoImagesWhenRolesResolve ==
    /\ (pc = "ret" /\ first_hit /\ err = "none"
          /\ t_var # None /\ u_var # None /\ v_var # None) =>
            /\ FilesOf(Model) = { TempFile(Model), WindFile(Model) }
            /\ Cardinality(FilesOf(Model)) = 2
            /\ ret
    /\ (pc = "done" /\ \E n \in 1..Len(results) :
                          results[n] /\ Cardinality(FilesOf(Models[n])) = 2) =>
            (exit_code = 0 /\ message = "success")

C7_Witness ==
    /\ pc = "ret"
    /\ first_hit
    /\ err = "none"
    /\ t_var # None /\ u_var # None /\ v_var # None
    /\ Cardinality(FilesOf(Model)) = 2
    /\ ret

(***************************************************************************)
(* C8, as stated: prefixes are probed from the most recent forecast cycle  *)
(* to the oldest, within a day and across days; after a listing that holds *)
(* an object no other prefix is probed; the key lies under that prefix.    *)
(* The order is stated of each probe and the one before it: probes grows   *)
(* by one prefix a step, so every pair of neighbours is the last pair of   *)
(* some state.                                                             *)
(***************************************************************************)
C8_Original ==
    Running =>
        /\ Len(probes) >= 2 =>
              LET n == Len(probes)
              IN \/ DateOf(probes[n - 1]) > DateOf(probes[n])
                 \/ /\ DateOf(probes[n - 1]) = DateOf(probes[n])
                    /\ NumVal(HourOf(probes[n - 1])) >= NumVal(HourOf(probes[n]))
        /\ ~prev_contents
        /\ key # None => StartsWith(key, probes[Len(probes)])

\* the place of a forecast cycle in the order the code probes a day
HourRank(h) ==
    IF Source = "noaa"
    THEN CASE h = "00" -> 1 [] h = "12" -> 2 [] h = "06" -> 3 [] h = "18" -> 4
           [] OTHER -> 0
    ELSE CASE h = "00" -> 1 [] h = "12" -> 2 [] OTHER -> 0

\* what the filter of the current provider accepts
Acceptable(k) ==
    IF Source = "noaa" THEN HasExtension(k) /\ HasMarker(k) ELSE HasExtension(k)

(***************************************************************************)
(* C8, amended: days are probed most recent first; within a day the cycles *)
(* are probed in the fixed order 00, 12, 06, 18 (NOAA) or 00, 12 (ECMWF);  *)
(* the search goes on after a listing that holds no acceptable key and     *)
(* stops at the first listing that holds one: no other prefix is probed    *)
(* and the returned key lies under that prefix.                            *)
(***************************************************************************)
C8_DaysRecentFirstFirstAcceptable ==
    Running =>
        /\ Len(probes) >= 2 =>
              LET n == Len(probes)
              IN \/ DateOf(probes[n - 1]) > DateOf(probes[n])
                 \/ /\ DateOf(probes[n - 1]) = DateOf(probes[n])
                    /\ HourRank(HourOf(probes[n - 1])) <= HourRank(HourOf(probes[n]))
                    /\ HourRank(HourOf(probes[n - 1])) >= 1
        /\ pc = "find" => \A n \in 1..Len(resp.Contents) : ~Acceptable(resp.Contents[n])
        /\ key # None =>
              /\ pc = "download"
              /\ StartsWith(key, probes[Len(probes)])
              /\ \E n \in 1..Len(resp.Contents) : resp.Contents[n] = key
              /\ Acceptable(key)

C8_Witness ==
    /\ pc = "download"
    /\ Source = "noaa"
    /\ prev_contents
    /\ Len(probes) = 11
    /\ HourOf(probes[Len(probes)]) = "12"
    /\ StartsWith(key, probes[Len(probes)])

(***************************************************************************)
(* C9, as stated: for every provider the window is at most 5 days of the 4 *)
(* forecast cycles 00, 06, 12, 18; the probes are bounded, no prefix is    *)
(* probed twice, and the exhausted window gives (None, None).              *)
(***************************************************************************)
C9_Original ==
    Running =>
        /\ Len(probes) <= 5 * 4 * 2
        /\ \A a \in 1..(Len(probes) - 1) : probes[a] # probes[Len(probes)]
        /\ Cardinality(DaysProbed) <= 5
        /\ (pc = "ret" /\ err = "notfound") =>
              /\ key = None /\ date_str = None /\ ~ret
              /\ Cardinality(DaysProbed) = 5
              /\ \A day \in DaysProbed : CyclesProbed(day) = { "00", "06", "12", "18" }

(***************************************************************************)
(* C9, amended: the window is at most 5 days of the 4 cycles 00, 06, 12,   *)
(* 18 for the NOAA providers (two prefixes a cycle, at most 40 probes) and *)
(* of the 2 cycles 00, 12 for the ECMWF provider (at most 10 probes); no   *)
(* prefix is probed twice and the exhausted window gives (None, None).     *)
(* "Not twice" is stated of each probe against the earlier ones.           *)
(***************************************************************************)
C9_BoundedLookback ==
    Running =>
        /\ Len(probes) <= (IF Source = "noaa" THEN 40 ELSE 10)
        /\ \A a \in 1..(Len(probes) - 1) : probes[a] # probes[Len(probes)]
        /\ Cardinality(DaysProbed) <= 5
        /\ (pc = "ret" /\ err = "notfound") =>
              /\ key = None /\ date_str = None /\ ~ret
              /\ Len(probes) = (IF Source = "noaa" THEN 40 ELSE 10)
              /\ Cardinality(DaysProbed) = 5
              /\ \A day \in DaysProbed :
                    CyclesProbed(day) = (IF Source = "noaa"
                                         THEN { "00", "06", "12", "18" }
                                         ELSE { "00", "12" })

C9_Witness ==
    /\ pc = "ret"
    /\ err = "notfound"
    /\ Source = "ecmwf"
    /\ Len(probes) = 10
    /\ prev_contents

(***************************************************************************)
(* C10, as stated: for every provider the key returned from a listing is   *)
(* the first, in listing order, that holds a marker (f012 or f006) and     *)
(* ends with the extension; without such a key nothing is returned from    *)
(* the listing.                                                            *)
(***************************************************************************)
C10_Original ==
    Listed =>
        LET good == { n \in 1..Len(resp.Contents) :
                        HasMarker(resp.Contents[n]) /\ HasExtension(resp.Contents[n]) }
        IN IF good = {}
           THEN key = None /\ pc = "find"
           ELSE /\ pc = "download"
                /\ \E n \in good : key = resp.Contents[n] /\ \A m \in good : n <= m

(***************************************************************************)
(* C10, amended: for the NOAA providers the key returned from a listing is *)
(* the first that holds a marker and ends with the extension; for the      *)
(* ECMWF provider it is the first that ends with the extension, marker or  *)
(* not; without such a key nothing is returned from the listing.           *)
(***************************************************************************)
C10_FirstAcceptableKey ==
    Listed =>
        LET good == { n \in 1..Len(resp.Contents) :
                        /\ HasExtension(resp.Contents[n])
                        /\ Source = "noaa" => HasMarker(resp.Contents[n]) }
        IN IF good = {}
           THEN key = None /\ pc = "find"
           ELSE /\ pc = "download"
                /\ \E n \in good : key = resp.Contents[n] /\ \A m \in good : n <= m

C10_Witness ==
    /\ pc = "download"
    /\ Source = "noaa"
    /\ Len(resp.Contents) = 2
    /\ HasMarker(resp.Contents[1]) /\ HasExtension(resp.Contents[1])
    /\ HasMarker(resp.Contents[2]) /\ HasExtension(resp.Contents[2])
    /\ key = resp.Contents[1]

====
